---------------------------- MODULE Spec2Model ----------------------------
(***************************************************************************)
(* Model of src/src/encoding.rs: the VLQ integer codec, the typed          *)
(* Readable/Writable implementations and the FieldType dispatch.           *)
(*                                                                         *)
(* Representation.  A byte is an integer in 0..255.  A 32-bit word (u32 or *)
(* i32) is held as the integer in -2^31 .. 2^31-1 that has the same 32     *)
(* bits (two's complement): the u32 x >= 2^31 is held as x - 2^32.  This   *)
(* is the view encode_vlq_int itself takes (`let sv = v as i32`).  A       *)
(* &[u8] / Vec<u8> is a sequence of bytes.  A &str / String is a sequence  *)
(* of Unicode scalar values; as_bytes and from_utf8 convert between it and *)
(* its UTF-8 bytes.                                                        *)
(***************************************************************************)
EXTENDS Integers, Sequences, FiniteSets

(***************************************************************************)
(* Bounds of the model.                                                    *)
(***************************************************************************)
\* Fields written into one buffer by the stream behaviours.
MaxFields == 2
\* Length of a received cursor over NarrowBytes.
MaxRawLen == 6
\* Length of a received cursor over WideBytes.
MaxShortLen == 3

(***************************************************************************)
(* 32-bit arithmetic on the signed representation.                         *)
(***************************************************************************)
I32Min == -(2^30) - 2^30
I32Max == (2^30 - 1) + 2^30

\* The u32 with high half hi and low half lo (each 0..65535).
U32Of(hi, lo) == IF hi >= 32768 THEN (hi - 65536) * 65536 + lo ELSE hi * 65536 + lo

\* `v << 7` on a u32: the top seven bits fall off.
Shl7(v) ==
    LET w == v % 2^25
    IN IF w >= 2^24 THEN (w - 2^25) * 128 ELSE w * 128

\* `v as $type` for the word v parse_vlq_int returned.
AsType(ty, v) ==
    CASE ty = "u32" -> v
      [] ty = "i32" -> v
      [] ty = "u16" -> v % 65536
      [] ty = "i16" -> IF v % 65536 >= 32768 THEN (v % 65536) - 65536 ELSE v % 65536
      [] ty = "u8"  -> v % 256

\* `*self as u32` for a value of an integer type: zero extension of an
\* unsigned value, sign extension of a signed one.  Either way the word has
\* the value v (for a u32, v already is the word).
AsU32(ty, v) == v

\* u32::from(b) for a bool.
U32FromBool(b) == IF b THEN 1 ELSE 0

(***************************************************************************)
(* Results: Result<T, MessageDecodeError> together with the cursor the     *)
(* call leaves behind in its `data: &mut &[u8]` argument.                  *)
(***************************************************************************)
NoVal == "none"
Unit == "()"
Ok(v, d) == [res |-> "Ok", val |-> v, data |-> d]
Err(e, d) == [res |-> e, val |-> NoVal, data |-> d]

(***************************************************************************)
(* encode_vlq_int                                                          *)
(***************************************************************************)
\* (lo..hi).contains(&sv)
Contains(lo, hi, sv) == lo <= sv /\ sv < hi

\* Mutant of encode_vlq_int: the ranges end at 2 << k instead of 3 << k.
encode_vlq_int_narrow_ranges(output, v) ==
    LET sv == v
        b4 == IF ~Contains(-(2^26), 2 * 2^26, sv)
              THEN <<((sv \div 2^28) % 128) + \H80>> ELSE <<>>
        b3 == IF ~Contains(-(2^19), 2 * 2^19, sv)
              THEN <<((sv \div 2^21) % 128) + \H80>> ELSE <<>>
        b2 == IF ~Contains(-(2^12), 2 * 2^12, sv)
              THEN <<((sv \div 2^14) % 128) + \H80>> ELSE <<>>
        b1 == IF ~Contains(-(2^5), 2 * 2^5, sv)
              THEN <<((sv \div 2^7) % 128) + \H80>> ELSE <<>>
    IN output \o b4 \o b3 \o b2 \o b1 \o <<sv % 128>>

encode_vlq_int(output, v) ==
    LET sv == v
        b4 == IF ~Contains(-(2^26), 3 * 2^26, sv)
              THEN <<((sv \div 2^28) % 128) + \H80>> ELSE <<>>
        b3 == IF ~Contains(-(2^19), 3 * 2^19, sv)
              THEN <<((sv \div 2^21) % 128) + \H80>> ELSE <<>>
        b2 == IF ~Contains(-(2^12), 3 * 2^12, sv)
              THEN <<((sv \div 2^14) % 128) + \H80>> ELSE <<>>
        b1 == IF ~Contains(-(2^5), 3 * 2^5, sv)
              THEN <<((sv \div 2^7) % 128) + \H80>> ELSE <<>>
    IN output \o b4 \o b3 \o b2 \o b1 \o <<sv % 128>>

(***************************************************************************)
(* next_byte, parse_vlq_int                                                *)
(***************************************************************************)
\* Mutant of next_byte: an empty cursor yields a zero byte.
next_byte_zero_at_end(data) ==
    IF data = <<>>
    THEN Ok(0, data)
    ELSE Ok(Head(data), Tail(data))

next_byte(data) ==
    IF data = <<>>
    THEN Err("UnexpectedEof", data)
    ELSE Ok(Head(data), Tail(data))

\* Mutant of vlq_first: the sign extension is left out.
vlq_first_unsigned(c) == c % 128

\* The first byte: v = c & 0x7F, sign-extended when (c & 0x60) == 0x60.
vlq_first(c) ==
    LET v == c % 128
    IN IF (c \div 32) % 4 = 3 THEN (v % 32) - 32 ELSE v

\* while c & 0x80 != 0 { c = next_byte(data)?; v = (v << 7) | (c & 0x7F) }
RECURSIVE vlq_loop(_, _, _)
\* Mutant of vlq_loop: the continuation test uses the mask 0x40.
vlq_loop_mask_40(c, v, data) ==
    IF (c \div 64) % 2 = 0
    THEN Ok(v, data)
    ELSE LET r == next_byte(data)
         IN IF r.res # "Ok"
            THEN r
            ELSE vlq_loop(r.val, Shl7(v) + (r.val % 128), r.data)

vlq_loop(c, v, data) ==
    IF c \div 128 = 0
    THEN Ok(v, data)
    ELSE LET r == next_byte(data)
         IN IF r.res # "Ok"
            THEN r
            ELSE vlq_loop(r.val, Shl7(v) + (r.val % 128), r.data)

parse_vlq_int(data) ==
    LET r == next_byte(data)
    IN IF r.res # "Ok" THEN r ELSE vlq_loop(r.val, vlq_first(r.val), r.data)

(***************************************************************************)
(* UTF-8: str::as_bytes and std::str::from_utf8.                           *)
(***************************************************************************)
\* The UTF-8 bytes of one Unicode scalar value.
Utf8OfChar(c) ==
    IF c < \H80 THEN <<c>>
    ELSE IF c < \H800 THEN <<\HC0 + (c \div 64), \H80 + (c % 64)>>
    ELSE IF c < \H10000
         THEN <<\HE0 + (c \div 4096), \H80 + ((c \div 64) % 64), \H80 + (c % 64)>>
    ELSE <<\HF0 + (c \div 262144), \H80 + ((c \div 4096) % 64),
           \H80 + ((c \div 64) % 64), \H80 + (c % 64)>>

\* s.as_bytes(): the bytes of the chars, in order (halving keeps the
\* evaluation shallow for long strings).
RECURSIVE as_bytes(_)
as_bytes(s) ==
    IF s = <<>> THEN <<>>
    ELSE IF Len(s) = 1 THEN Utf8OfChar(s[1])
    ELSE LET h == Len(s) \div 2
         IN as_bytes(SubSeq(s, 1, h)) \o as_bytes(SubSeq(s, h + 1, Len(s)))

InRange(b, lo, hi) == lo <= b /\ b <= hi
Cont(b) == InRange(b, \H80, \HBF)

\* The number of bytes of the well-formed UTF-8 sequence that starts at d[i],
\* or 0 when there is none (an invalid or truncated sequence).
Utf8Width(d, i) ==
    LET n  == Len(d) - i + 1
        b1 == d[i]
    IN IF b1 < \H80 THEN 1
       ELSE IF InRange(b1, \HC2, \HDF)
            THEN IF n >= 2 /\ Cont(d[i + 1]) THEN 2 ELSE 0
       ELSE IF InRange(b1, \HE0, \HEF)
            THEN IF /\ n >= 3
                    /\ \/ b1 = \HE0 /\ InRange(d[i + 1], \HA0, \HBF)
                       \/ InRange(b1, \HE1, \HEC) /\ Cont(d[i + 1])
                       \/ b1 = \HED /\ InRange(d[i + 1], \H80, \H9F)
                       \/ InRange(b1, \HEE, \HEF) /\ Cont(d[i + 1])
                    /\ Cont(d[i + 2])
                 THEN 3 ELSE 0
       ELSE IF InRange(b1, \HF0, \HF4)
            THEN IF /\ n >= 4
                    /\ \/ b1 = \HF0 /\ InRange(d[i + 1], \H90, \HBF)
                       \/ InRange(b1, \HF1, \HF3) /\ Cont(d[i + 1])
                       \/ b1 = \HF4 /\ InRange(d[i + 1], \H80, \H8F)
                    /\ Cont(d[i + 2])
                    /\ Cont(d[i + 3])
                 THEN 4 ELSE 0
       ELSE 0

\* The scalar value of the well-formed sequence of w bytes that starts at d[i].
Utf8Char(d, i, w) ==
    CASE w = 1 -> d[i]
      [] w = 2 -> (d[i] % 32) * 64 + (d[i + 1] % 64)
      [] w = 3 -> (d[i] % 16) * 4096 + (d[i + 1] % 64) * 64 + (d[i + 2] % 64)
      [] w = 4 -> (d[i] % 8) * 262144 + (d[i + 1] % 64) * 4096
                  + (d[i + 2] % 64) * 64 + (d[i + 3] % 64)

\* std::str::from_utf8 on a short slice: the sequences are taken one after
\* another from d[i] on; `acc` is the str so far.
RECURSIVE utf8_scan(_, _, _)
utf8_scan(d, i, acc) ==
    IF i > Len(d)
    THEN [ok |-> TRUE, str |-> acc]
    ELSE LET w == Utf8Width(d, i)
         IN IF w = 0
            THEN [ok |-> FALSE, str |-> <<>>]
            ELSE utf8_scan(d, i + w, Append(acc, Utf8Char(d, i, w)))

\* std::str::from_utf8(d): Ok(the str) when d is a run of well-formed
\* sequences, Err(Utf8Error) otherwise.  A long slice is cut in two at a
\* byte near its middle that is not a continuation byte (a sequence never
\* spans such a byte, and one of any four bytes in a row is one when d is
\* valid), which keeps the evaluation shallow.
RECURSIVE from_utf8(_)
from_utf8(d) ==
    IF Len(d) <= 16
    THEN utf8_scan(d, 1, <<>>)
    ELSE LET mid  == Len(d) \div 2
             cand == {i \in (mid - 2)..(mid + 1) : ~Cont(d[i])}
         IN IF cand = {}
            THEN [ok |-> FALSE, str |-> <<>>]
            ELSE LET p == CHOOSE i \in cand : \A j \in cand : j <= i
                     l == from_utf8(SubSeq(d, 1, p - 1))
                     r == from_utf8(SubSeq(d, p, Len(d)))
                 IN IF l.ok /\ r.ok
                    THEN [ok |-> TRUE, str |-> l.str \o r.str]
                    ELSE [ok |-> FALSE, str |-> <<>>]

(***************************************************************************)
(* int_readwrite!, bool: Readable and Writable built on the VLQ codec.     *)
(***************************************************************************)
IntTypes == {"u32", "i32", "u16", "i16", "u8"}
Types == IntTypes \cup {"bool", "bytes", "str"}

\* parse_vlq_int(data).map(|v| v as $type)
read_int(ty, data) ==
    LET r == parse_vlq_int(data)
    IN IF r.res = "Ok" THEN Ok(AsType(ty, r.val), r.data) ELSE r

\* parse_vlq_int(data).map(|_| ())
skip_int(data) ==
    LET r == parse_vlq_int(data)
    IN IF r.res = "Ok" THEN Ok(Unit, r.data) ELSE r

write_int(ty, v, output) == encode_vlq_int(output, AsU32(ty, v))

\* Mutant of read_bool: true only for the value 1.
read_bool_only_one(data) ==
    LET r == parse_vlq_int(data)
    IN IF r.res = "Ok" THEN Ok(r.val = 1, r.data) ELSE r

\* parse_vlq_int(data).map(|v| v != 0)
read_bool(data) ==
    LET r == parse_vlq_int(data)
    IN IF r.res = "Ok" THEN Ok(r.val # 0, r.data) ELSE r

skip_bool(data) ==
    LET r == parse_vlq_int(data)
    IN IF r.res = "Ok" THEN Ok(Unit, r.data) ELSE r

write_bool(b, output) == encode_vlq_int(output, U32FromBool(b))

(***************************************************************************)
(* &[u8] and &str: a VLQ length, then that many bytes.                     *)
(***************************************************************************)
\* data.len() < len, for len = (the word) as usize: a word held as a
\* negative integer is a length of 2^31 or more.
LenBelow(data, len) == len < 0 \/ Len(data) < len

\* &data[..len] and &data[len..]
Upto(data, len) == SubSeq(data, 1, len)
From(data, len) == SubSeq(data, len + 1, Len(data))

read_bytes(data) ==
    LET r == parse_vlq_int(data)
    IN IF r.res # "Ok" THEN r
       ELSE IF LenBelow(r.data, r.val)
            THEN Err("UnexpectedEof", r.data)
            ELSE Ok(Upto(r.data, r.val), From(r.data, r.val))

\* Mutant of skip_bytes: the cursor is not moved past the payload.
skip_bytes_prefix_only(data) ==
    LET r == parse_vlq_int(data)
    IN IF r.res # "Ok" THEN r
       ELSE IF LenBelow(r.data, r.val)
            THEN Err("UnexpectedEof", r.data)
            ELSE Ok(Unit, r.data)

skip_bytes(data) ==
    LET r == parse_vlq_int(data)
    IN IF r.res # "Ok" THEN r
       ELSE IF LenBelow(r.data, r.val)
            THEN Err("UnexpectedEof", r.data)
            ELSE Ok(Unit, From(r.data, r.val))

\* self.len() as u32, then the bytes
write_bytes(s, output) == encode_vlq_int(output, Len(s)) \o s

\* Mutant of read_str: the payload is validated before the cursor moves.
read_str_validate_first(data) ==
    LET r == parse_vlq_int(data)
    IN IF r.res # "Ok" THEN r
       ELSE IF LenBelow(r.data, r.val)
            THEN Err("UnexpectedEof", r.data)
            ELSE LET u == from_utf8(Upto(r.data, r.val))
                 IN IF u.ok
                    THEN Ok(u.str, From(r.data, r.val))
                    ELSE Err("Utf8Error", r.data)

\* Mutant of read_str: the payload is not validated and every byte is taken
\* for a char.
read_str_unchecked(data) ==
    LET r == parse_vlq_int(data)
    IN IF r.res # "Ok" THEN r
       ELSE IF LenBelow(r.data, r.val)
            THEN Err("UnexpectedEof", r.data)
            ELSE Ok(Upto(r.data, r.val), From(r.data, r.val))

read_str(data) ==
    LET r == parse_vlq_int(data)
    IN IF r.res # "Ok" THEN r
       ELSE IF LenBelow(r.data, r.val)
            THEN Err("UnexpectedEof", r.data)
            ELSE LET u == from_utf8(Upto(r.data, r.val))
                 IN IF u.ok
                    THEN Ok(u.str, From(r.data, r.val))
                    ELSE Err("Utf8Error", From(r.data, r.val))

skip_str(data) ==
    LET r == parse_vlq_int(data)
    IN IF r.res # "Ok" THEN r
       ELSE IF LenBelow(r.data, r.val)
            THEN Err("UnexpectedEof", r.data)
            ELSE Ok(Unit, From(r.data, r.val))

\* Mutant of write_str: the prefix counts chars instead of bytes.
write_str_char_count(s, output) ==
    LET bytes == as_bytes(s)
    IN encode_vlq_int(output, Len(s)) \o bytes

write_str(s, output) ==
    LET bytes == as_bytes(s)
    IN encode_vlq_int(output, Len(bytes)) \o bytes

(***************************************************************************)
(* The traits: <T as Readable>::read / skip, <T as Writable>::write,       *)
(* <T as ToFieldType>::as_field_type.                                      *)
(***************************************************************************)
read(ty, data) ==
    CASE ty \in IntTypes -> read_int(ty, data)
      [] ty = "bool"  -> read_bool(data)
      [] ty = "bytes" -> read_bytes(data)
      [] ty = "str"   -> read_str(data)

skip(ty, data) ==
    CASE ty \in IntTypes -> skip_int(data)
      [] ty = "bool"  -> skip_bool(data)
      [] ty = "bytes" -> skip_bytes(data)
      [] ty = "str"   -> skip_str(data)

write(ty, v, output) ==
    CASE ty \in IntTypes -> write_int(ty, v, output)
      [] ty = "bool"  -> write_bool(v, output)
      [] ty = "bytes" -> write_bytes(v, output)
      [] ty = "str"   -> write_str(v, output)

as_field_type(ty) ==
    CASE ty = "u32" -> "U32"
      [] ty = "i32" -> "I32"
      [] ty = "u16" -> "U16"
      [] ty = "i16" -> "I16"
      [] ty = "u8"  -> "U8"
      [] ty = "bool" -> "U8"
      [] ty = "str" -> "String"
      [] ty = "bytes" -> "ByteArray"

(***************************************************************************)
(* FieldType and FieldValue.                                               *)
(***************************************************************************)
FieldType == {"U32", "I32", "U16", "I16", "U8", "String", "ByteArray"}

\* The type whose Readable implementation a tag dispatches to.
TypeOf(ft) ==
    CASE ft = "U32" -> "u32"
      [] ft = "I32" -> "i32"
      [] ft = "U16" -> "u16"
      [] ft = "I16" -> "i16"
      [] ft = "U8"  -> "u8"
      [] ft = "String" -> "str"
      [] ft = "ByteArray" -> "bytes"

\* FieldValue::<tag>(v); `.into()` makes the String / Vec<u8> an owned copy
\* with the same content.
FieldValue(tag, v) == [tag |-> tag, inner |-> v]

FieldType_skip(ft, input) ==
    CASE ft = "U32" -> skip("u32", input)
      [] ft = "I32" -> skip("i32", input)
      [] ft = "U16" -> skip("u16", input)
      [] ft = "I16" -> skip("i16", input)
      [] ft = "U8"  -> skip("u8", input)
      [] ft = "String" -> skip("str", input)
      [] ft = "ByteArray" -> skip("bytes", input)

\* `?` hands an Err on unchanged; an Ok is wrapped in the tag's variant.
Wrap(tag, r) == IF r.res = "Ok" THEN Ok(FieldValue(tag, r.val), r.data) ELSE r

\* Mutant of FieldType_read: the U16 arm reads a u8.
FieldType_read_u16_as_u8(ft, input) ==
    CASE ft = "U32" -> Wrap("U32", read("u32", input))
      [] ft = "I32" -> Wrap("I32", read("i32", input))
      [] ft = "U16" -> Wrap("U16", read("u8", input))
      [] ft = "I16" -> Wrap("I16", read("i16", input))
      [] ft = "U8"  -> Wrap("U8", read("u8", input))
      [] ft = "String" -> Wrap("String", read("str", input))
      [] ft = "ByteArray" -> Wrap("ByteArray", read("bytes", input))

FieldType_read(ft, input) ==
    CASE ft = "U32" -> Wrap("U32", read("u32", input))
      [] ft = "I32" -> Wrap("I32", read("i32", input))
      [] ft = "U16" -> Wrap("U16", read("u16", input))
      [] ft = "I16" -> Wrap("I16", read("i16", input))
      [] ft = "U8"  -> Wrap("U8", read("u8", input))
      [] ft = "String" -> Wrap("String", read("str", input))
      [] ft = "ByteArray" -> Wrap("ByteArray", read("bytes", input))

(***************************************************************************)
(* Inputs of the behaviours.                                               *)
(***************************************************************************)
\* n bytes / n chars, for payloads whose length needs a 1- or 2-byte prefix.
Fill(n, b) == [i \in 1..n |-> (b + i) % 256]
Repeat(n, c) == [i \in 1..n |-> c]

\* The values written one at a time: for each integer type the ends of its
\* range and the values on both sides of every VLQ chunk boundary.
Values(ty) ==
    CASE ty = "i32" ->
           {0, 1, -1, 63, 64, -64, -65, 8191, 8192, -8192, -8193, 1048575, 1048576,
            -32, -33, 95, 96, -4096, -4097, 12287, 12288,
            -(2^19), -(2^19) - 1, 3 * 2^19 - 1, 3 * 2^19,
            -(2^26), -(2^26) - 1, 3 * 2^26 - 1, 3 * 2^26,
            2^28 - 1, 2^28, -(2^28), -(2^28) - 1, I32Min, I32Min + 1, I32Max}
      [] ty = "u32" ->
           {0, 1, 63, 64, 95, 96, 8191, 8192, 12287, 12288, 1048575, 1048576,
            3 * 2^19 - 1, 3 * 2^19, 3 * 2^26 - 1, 3 * 2^26, 2^28 - 1, 2^28,
            U32Of(32767, 65535), U32Of(32768, 0), U32Of(49152, 0),
            U32Of(65535, 65535 - 32), U32Of(65535, 65535 - 31),
            U32Of(65535, 0), U32Of(65472, 0), U32Of(65535, 65535)}
      [] ty = "u16" ->
           {0, 1, 63, 64, 95, 96, 8191, 8192, 12287, 12288, 16383, 16384,
            32767, 32768, 65535 - 32, 65535 - 31, 65535}
      [] ty = "i16" ->
           {0, 1, -1, 63, 64, -64, -65, -32, -33, 95, 96, 8191, 8192, -8192, -8193,
            -4096, -4097, 12287, 12288, -32768, 32767}
      [] ty = "u8" -> 0..255
      [] ty = "bool" -> BOOLEAN
      [] ty = "bytes" ->
           {<<>>, <<0>>, <<\H80>>, <<\HFF>>, <<\HFF, \HFE>>, <<\H80, 0>>, <<\HC3, \HA9>>,
            Fill(95, 0), Fill(96, 0), Fill(97, \H70), Fill(130, \HF0),
            Fill(3 * 2^12 - 1, 0), Fill(3 * 2^12, 0)}
      [] ty = "str" ->
           {<<>>, <<\H41>>, <<0>>, <<\H7F>>, <<\H80>>, <<\HE9>>, <<\H7FF>>, <<\H800>>,
            <<\H20AC>>, <<\HD7FF>>, <<\HE000>>, <<\HFFFF>>, <<\H10000>>, <<\H1F600>>,
            <<\H10FFFF>>, <<\H41, \HE9, \H20AC, \H1F600>>,
            Repeat(95, \H41), Repeat(96, \H41), Repeat(48, \HE9), Repeat(40, \H20AC),
            Repeat(3 * 2^12 - 1, \H41), Repeat(3 * 2^10, \H1F600)}

\* The values written one after another into one buffer.
StreamValues(ty) ==
    CASE ty = "i32" -> {-33, I32Min}
      [] ty = "u32" -> {96, U32Of(65535, 65535)}
      [] ty = "u16" -> {65535}
      [] ty = "i16" -> {-4097}
      [] ty = "u8" -> {0, 255}
      [] ty = "bool" -> BOOLEAN
      [] ty = "bytes" -> {<<>>, <<\H80, \HFF>>}
      [] ty = "str" -> {<<>>, <<\H41, \H20AC>>}

\* The bytes that follow the written fields in a received buffer.
Tails == {<<>>, <<0>>, <<\H80, \HFF>>}

\* The bytes of received buffers that no write of the model produced.
NarrowBytes == {\H00, \H80, \HDF, \HFF}
WideBytes == {\H00, \H01, \H02, \H5F, \H60, \H80, \HDF, \HE0, \HFE, \HFF}

SeqsUpTo(S, n) == UNION {[1..k -> S] : k \in 0..n}
Cursors ==
    SeqsUpTo(NarrowBytes, MaxRawLen) \cup SeqsUpTo(WideBytes, MaxShortLen)
        \cup {<<b>> : b \in 0..255}

(***************************************************************************)
(* State.                                                                  *)
(*   output   the encode buffer (Vec<u8>) the caller writes fields into    *)
(*   written  the fields written so far: type, value and the bytes the     *)
(*            write added to output                                        *)
(*   mode     "encode" while the caller writes; then where the decode      *)
(*            cursor came from: "full" (output and a tail), "truncated"    *)
(*            (output less its last byte), "raw" (bytes from elsewhere)    *)
(*   data     the decode cursor (&mut &[u8])                               *)
(*   tail     the bytes that followed output in the received buffer        *)
(*   pending  the written fields not yet decoded from the cursor           *)
(*   last     the latest decode call: what was called, on which cursor,    *)
(*            and what it returned                                         *)
(***************************************************************************)
VARIABLES output, written, mode, data, tail, pending, last

vars == <<output, written, mode, data, tail, pending, last>>

NoCall == [op |-> "none", via |-> "none", ty |-> "none", res |-> "none",
           val |-> NoVal, before |-> <<>>]

Init ==
    /\ output = <<>>
    /\ written = <<>>
    /\ mode = "encode"
    /\ data = <<>>
    /\ tail = <<>>
    /\ pending = <<>>
    /\ last = NoCall

(***************************************************************************)
(* Encoding: v.write(&mut output).                                         *)
(***************************************************************************)
Write(ty, v) ==
    /\ mode = "encode"
    /\ output' = write(ty, v, output)
    /\ written' = Append(written,
                         [ty |-> ty, val |-> v,
                          bytes |-> SubSeq(output', Len(output) + 1, Len(output'))])
    /\ UNCHANGED <<mode, data, tail, pending, last>>

(***************************************************************************)
(* The caller forms the decode cursor.                                     *)
(***************************************************************************)
\* The written buffer followed by t.
Receive(t) ==
    /\ mode = "encode"
    /\ mode' = "full"
    /\ data' = output \o t
    /\ tail' = t
    /\ pending' = written
    /\ UNCHANGED <<output, written, last>>

\* The encoding of one field with its final byte removed.
ReceiveTruncated ==
    /\ mode = "encode"
    /\ Len(written) = 1
    /\ mode' = "truncated"
    /\ data' = SubSeq(output, 1, Len(output) - 1)
    /\ pending' = written
    /\ UNCHANGED <<output, written, tail, last>>

\* Any bytes at all.
ReceiveRaw(b) ==
    /\ mode = "encode"
    /\ written = <<>>
    /\ mode' = "raw"
    /\ data' = b
    /\ UNCHANGED <<output, written, tail, pending, last>>

(***************************************************************************)
(* Decoding: one call on the cursor.  The call's result is kept in last,   *)
(* the cursor it leaves behind in data.                                    *)
(***************************************************************************)
Call(op, via, ty, r) ==
    /\ mode # "encode"
    /\ data' = r.data
    /\ last' = [op |-> op, via |-> via, ty |-> ty, res |-> r.res, val |-> r.val,
                before |-> data]
    /\ pending' = IF pending = <<>> THEN pending ELSE Tail(pending)
    /\ UNCHANGED <<output, written, mode, tail>>

Read(ty) == Call("read", "typed", ty, read(ty, data))
Skip(ty) == Call("skip", "typed", ty, skip(ty, data))
FieldRead(ft) == Call("read", "field", ft, FieldType_read(ft, data))
FieldSkip(ft) == Call("skip", "field", ft, FieldType_skip(ft, data))

(***************************************************************************)
(* Behaviours.                                                             *)
(***************************************************************************)
\* One value is written, received whole or truncated, and decoded by one
\* call of any type.
WriteOne ==
    /\ mode = "encode" /\ written = <<>>
    /\ \E ty \in Types : \E v \in Values(ty) : Write(ty, v)
ReceiveWhole == written # <<>> /\ Receive(<<>>)
DecodeOne ==
    /\ pending # <<>>
    /\ \/ \E ty \in Types : Read(ty)
       \/ \E ty \in Types : Skip(ty)
       \/ \E ft \in FieldType : FieldRead(ft)
       \/ \E ft \in FieldType : FieldSkip(ft)

NextValue == WriteOne \/ ReceiveWhole \/ ReceiveTruncated \/ DecodeOne

SpecValue == Init /\ [][NextValue]_vars

\* Several values are written into one buffer, received with a tail, and
\* decoded in the order written by the calls of their own types.
WriteField ==
    /\ mode = "encode" /\ Len(written) < MaxFields
    /\ \E ty \in Types : \E v \in StreamValues(ty) : Write(ty, v)
ReceiveStream == mode = "encode" /\ \E t \in Tails : Receive(t)
DecodeField ==
    /\ pending # <<>>
    /\ LET ty == Head(pending).ty
       IN \/ Read(ty)
          \/ Skip(ty)
          \/ FieldRead(as_field_type(ty))
          \/ FieldSkip(as_field_type(ty))

NextStream == WriteField \/ ReceiveStream \/ DecodeField

SpecStream == Init /\ [][NextStream]_vars

\* Bytes from elsewhere are received and decoded by one call of any type
\* (the cursor a call leaves behind is a suffix, itself one of Cursors).
ReceiveAny == mode = "encode" /\ \E b \in Cursors : ReceiveRaw(b)
DecodeAny ==
    /\ mode = "raw"
    /\ last = NoCall
    /\ \/ \E ty \in Types : Read(ty)
       \/ \E ty \in Types : Skip(ty)
       \/ \E ft \in FieldType : FieldRead(ft)
       \/ \E ft \in FieldType : FieldSkip(ft)

NextCursor == ReceiveAny \/ DecodeAny

SpecCursor == Init /\ [][NextCursor]_vars

(***************************************************************************)
(* Vocabulary of the properties.                                           *)
(***************************************************************************)
\* The latest call decoded (read or skipped) an integer.
IntCall ==
    /\ last.op # "none"
    /\ \/ last.via = "typed" /\ last.ty \in IntTypes
       \/ last.via = "field" /\ last.ty \in {"U32", "I32", "U16", "I16", "U8"}

\* The latest call was made for the type of field f.
CallFor(f) ==
    \/ last.via = "typed" /\ last.ty = f.ty
    \/ last.via = "field" /\ last.ty = as_field_type(f.ty)

\* The bytes the latest call consumed.
Consumed == Len(last.before) - Len(data)

\* The bytes the writes of the fields fs added, in order.
RECURSIVE Encoded(_)
Encoded(fs) == IF fs = <<>> THEN <<>> ELSE Head(fs).bytes \o Encoded(Tail(fs))

\* What FieldType::read gives for the written field f: the variant of f's
\* tag around f's value (a bool has the tag U8 and travels as 1 or 0).
AsFieldValue(f) ==
    FieldValue(as_field_type(f.ty), IF f.ty = "bool" THEN U32FromBool(f.val) ELSE f.val)

(***************************************************************************)
(* C1.  Integer round trip: a value of u32, i32, u16, i16 or u8 written    *)
(* into an empty buffer and read back by the same type's read from exactly *)
(* those bytes comes back as Ok(v), the cursor used up.                    *)
(***************************************************************************)
C1_IntRoundTrip ==
    (/\ mode = "full"
     /\ written[1].ty \in IntTypes
     /\ last.op = "read" /\ last.via = "typed" /\ last.ty = written[1].ty)
    => /\ last.res = "Ok"
       /\ last.val = written[1].val
       /\ data = <<>>

C1_Witness ==
    /\ mode = "full"
    /\ written[1].ty = "i32" /\ written[1].val = I32Min
    /\ Len(written[1].bytes) = 5
    /\ last.op = "read" /\ last.via = "typed" /\ last.ty = "i32"
    /\ last.res = "Ok" /\ last.val = I32Min

(***************************************************************************)
(* C2.  Byte-array and string round trip: a byte sequence or a string      *)
(* written into an empty buffer and read back by the matching read from    *)
(* exactly those bytes comes back as Ok(s), equal to s, whether its length *)
(* prefix takes one byte or more.                                          *)
(***************************************************************************)
C2_SliceRoundTrip ==
    (/\ mode = "full"
     /\ written[1].ty \in {"bytes", "str"}
     /\ last.op = "read" /\ last.via = "typed" /\ last.ty = written[1].ty)
    => /\ last.res = "Ok"
       /\ last.val = written[1].val
       /\ data = <<>>

C2_Witness ==
    /\ mode = "full"
    /\ written[1].ty = "str" /\ written[1].val = Repeat(3 * 2^10, \H1F600)
    /\ Len(written[1].bytes) = 3 + 3 * 2^12
    /\ last.op = "read" /\ last.via = "typed" /\ last.ty = "str"
    /\ last.res = "Ok" /\ last.val = written[1].val

(***************************************************************************)
(* C3.  Skip/read cursor parity: on any cursor, skip and read of the same  *)
(* field type (the typed calls, bool among them, and the FieldType calls)  *)
(* leave the cursor at the same position, also when one or both fail.      *)
(***************************************************************************)
C3_SkipReadParity ==
    last.op # "none" =>
        LET other ==
                CASE last.via = "typed" /\ last.op = "read" -> skip(last.ty, last.before)
                  [] last.via = "typed" /\ last.op = "skip" -> read(last.ty, last.before)
                  [] last.via = "field" /\ last.op = "read" -> FieldType_skip(last.ty, last.before)
                  [] last.via = "field" /\ last.op = "skip" -> FieldType_read(last.ty, last.before)
        IN other.data = data

C3_Witness ==
    /\ last.op = "read" /\ last.ty = "str"
    /\ last.res = "Utf8Error"
    /\ skip("str", last.before).res = "Ok"
    /\ Consumed = 2
    /\ data # <<>>

(***************************************************************************)
(* C4.  Truncation: the bytes write produced for a value, less their final *)
(* byte, make the read and the skip of that field type (typed and through  *)
(* FieldType) fail with UnexpectedEof, never with Ok or Utf8Error.         *)
(***************************************************************************)
C4_Truncation ==
    (mode = "truncated" /\ last.op # "none" /\ CallFor(written[1]))
    => last.res = "UnexpectedEof"

C4_Witness ==
    /\ mode = "truncated"
    /\ written[1].ty = "str" /\ written[1].val = <<\HE9>>
    /\ last.op = "read" /\ last.via = "field" /\ last.ty = "String"
    /\ last.before = <<2, \HC3>>
    /\ last.res = "UnexpectedEof"

(***************************************************************************)
(* C5.  Invalid UTF-8: reading a string whose length prefix is L, with at  *)
(* least L bytes after it that are not valid UTF-8, fails with Utf8Error   *)
(* through <&str>::read and through FieldType::String.read, the cursor     *)
(* already past the prefix and the L bytes.                                *)
(***************************************************************************)
C5_InvalidUtf8 ==
    (/\ last.op = "read"
     /\ \/ last.via = "typed" /\ last.ty = "str"
        \/ last.via = "field" /\ last.ty = "String")
    => LET p == parse_vlq_int(last.before)
       IN (/\ p.res = "Ok"
           /\ p.val >= 0 /\ Len(p.data) >= p.val
           /\ ~from_utf8(SubSeq(p.data, 1, p.val)).ok)
          => /\ last.res = "Utf8Error"
             /\ data = SubSeq(p.data, p.val + 1, Len(p.data))

C5_Witness ==
    /\ last.op = "read" /\ last.via = "field" /\ last.ty = "String"
    /\ last.before = <<2, \HFF, \HFE>>
    /\ last.res = "Utf8Error"
    /\ data = <<>>

(***************************************************************************)
(* C6.  Dispatch equivalence: FieldType::read of tag t returns Ok exactly  *)
(* when the typed read t names does on the same bytes; on Ok the           *)
(* FieldValue has the variant named like t around the typed read's value,  *)
(* on failure both give the same error.                                    *)
(***************************************************************************)
C6_DispatchEquivalence ==
    (last.op = "read" /\ last.via = "field")
    => LET t == read(TypeOf(last.ty), last.before)
       IN /\ last.res = t.res
          /\ last.res = "Ok" => (last.val.tag = last.ty /\ last.val.inner = t.val)

C6_Witness ==
    /\ last.op = "read" /\ last.via = "field" /\ last.ty = "U16"
    /\ last.res = "Ok"
    /\ last.before = <<\HDF, \H5F>>
    /\ last.val = FieldValue("U16", 12255)
    /\ read("u8", last.before).val = 223

(***************************************************************************)
(* C7.  Boolean semantics: write of false adds exactly the byte 0x00, of   *)
(* true exactly 0x01; read of a bool gives Ok(false) for the VLQ value 0   *)
(* and Ok(true) for any other 32-bit value, so a written bool reads back.  *)
(***************************************************************************)
C7_Bool ==
    /\ (written # <<>> /\ written[1].ty = "bool")
       => written[1].bytes = <<IF written[1].val THEN 1 ELSE 0>>
    /\ (/\ mode = "full"
        /\ last.op = "read" /\ last.via = "typed" /\ last.ty = "bool")
       => /\ written[1].ty = "bool" => (last.res = "Ok" /\ last.val = written[1].val)
          /\ written[1].ty \in IntTypes
             => (last.res = "Ok" /\ last.val = (written[1].val # 0))

C7_Witness ==
    /\ mode = "full"
    /\ written[1].ty = "u32" /\ written[1].val = U32Of(32768, 0)
    /\ last.op = "read" /\ last.via = "typed" /\ last.ty = "bool"
    /\ last.res = "Ok" /\ last.val = TRUE

(***************************************************************************)
(* C8.  As claimed: an integer read or skip that returns Ok has consumed   *)
(* at least 1 and at most 5 bytes of the cursor, whatever the cursor       *)
(* holds.                                                                  *)
(***************************************************************************)
C8_OneToFiveBytes ==
    (IntCall /\ last.res = "Ok") => (1 <= Consumed /\ Consumed <= 5)

(***************************************************************************)
(* C8, amended.  An integer read or skip that returns Ok has consumed at   *)
(* least 1 byte: the run of bytes whose continuation bit is set, however   *)
(* long, and the first byte whose continuation bit is clear.  It has       *)
(* consumed at most 5 bytes when these bytes are the ones encode_vlq_int   *)
(* writes for the decoded value.                                           *)
(***************************************************************************)
C8_ContinuationRun ==
    (IntCall /\ last.res = "Ok")
    => LET used == SubSeq(last.before, 1, Consumed)
       IN /\ 1 <= Consumed
          /\ \A i \in 1..(Consumed - 1) : used[i] >= \H80
          /\ used[Consumed] < \H80
          /\ used = encode_vlq_int(<<>>, parse_vlq_int(last.before).val)
             => Consumed <= 5

C8_Witness ==
    /\ IntCall /\ last.res = "Ok"
    /\ Consumed = 6
    /\ last.before = <<\H80, \H80, \H80, \H80, \H80, 0>>

(***************************************************************************)
(* C9.  Minimal encoding: encode_vlq_int writes n bytes for a 32-bit value *)
(* v, 1 <= n <= 5, and no sequence of fewer than n bytes is decoded, whole,*)
(* to v by parse_vlq_int: whenever a cursor is decoded to its end into v,  *)
(* the cursor is at least as long as the encoding of v.                    *)
(***************************************************************************)
C9_MinimalEncoding ==
    (/\ last.op = "read" /\ last.via = "typed" /\ last.ty \in {"u32", "i32"}
     /\ last.res = "Ok"
     /\ data = <<>>)
    => LET n == Len(encode_vlq_int(<<>>, last.val))
       IN 1 <= n /\ n <= 5 /\ n <= Len(last.before)

C9_Witness ==
    /\ last.op = "read" /\ last.via = "typed" /\ last.ty = "i32"
    /\ last.res = "Ok"
    /\ data = <<>>
    /\ Len(last.before) = 5
    /\ Len(encode_vlq_int(<<>>, last.val)) = 5

(***************************************************************************)
(* C10.  Self-delimiting fields: values written in order into one empty    *)
(* buffer and read back in that order (typed read or FieldType::read) from *)
(* a cursor over the buffer and any trailing bytes t come back unchanged,  *)
(* each call consuming exactly the bytes its write added, the cursor       *)
(* ending equal to t; and write only appends, so the buffer is always the  *)
(* bytes of the writes so far, in order.                                   *)
(***************************************************************************)
C10_SelfDelimiting ==
    /\ output = Encoded(written)
    /\ (mode = "full" /\ last.op # "none")
       => LET f == written[Len(written) - Len(pending)]
          IN /\ last.res = "Ok"
             /\ last.op = "read" /\ last.via = "typed" => last.val = f.val
             /\ last.op = "read" /\ last.via = "field" => last.val = AsFieldValue(f)
             /\ last.before = f.bytes \o data
             /\ data = Encoded(pending) \o tail

C10_Witness ==
    /\ mode = "full"
    /\ Len(written) = MaxFields
    /\ written[1].ty = "str" /\ written[1].val # <<>>
    /\ pending = <<>>
    /\ last.op = "read" /\ last.res = "Ok"
    /\ tail # <<>>
    /\ data = tail

=============================================================================
